---- MODULE Spec2Model ----
(***************************************************************************)
(* Model of the two data-access components of the ENS identity app:        *)
(*   - the EdgeStore: the GraphPage component (optimistic add/delete with  *)
(*     rollback, sticky localStorage fallback) together with the /api/edges *)
(*     route handlers and the edges table;                                 *)
(*   - the ActivityStore: the GET handler of /api/activity with its        *)
(*     activity_cache table and the explorer API it calls.                 *)
(* Spec is the EdgeStore, ActivitySpec the ActivityStore.  Each leaves the *)
(* other component's variables unchanged.                                  *)
(***************************************************************************)
EXTENDS Integers, Sequences, FiniteSets, TLC

VARIABLES
    \* ---- EdgeStore: GraphPage state (useState hooks) ----
    edges,            \* const [edges, setEdges]
    loading,          \* const [loading, setLoading]
    syncing,          \* const [syncing, setSyncing]
    useLocalStorage,  \* const [useLocalStorage, setUseLocalStorage]
    \* ---- EdgeStore: environment ----
    localStorage,     \* the "ens-graph-edges" item: NoItem or JSON text
    table,            \* rows of the edges table, in insertion order
    serial,           \* next value of the edges.id serial column
    clock,            \* Date.now() of the browser / now() of the database
    inflight,         \* fetch("/api/edges") requests not yet completed
    opCount,          \* number of requests and user operations so far
    reqCount,         \* number of fetch("/api/edges") requests issued
    done,             \* record of the operation that completed last
    \* ---- EdgeStore: the validating revision of GraphPage ----
    toast,            \* const [toast, setToast]
    validated,        \* the name-search answers the last addEdge received
    \* ---- ActivityStore ----
    now,              \* server clock, in seconds
    dbConfigured,     \* hasDatabaseConfig()
    apiKey,           \* getEtherscanApiKey() is set
    cacheTable,       \* rows of the activity_cache table
    call,             \* per request handler: position and locals of GET
    lastDone,         \* per normalized address: the call that returned last
    callCount,        \* number of GET requests started
    tickCount         \* number of clock advances

edgeVars == <<edges, loading, syncing, useLocalStorage, localStorage, table,
              serial, clock, inflight, opCount, reqCount, done>>
actVars == <<now, dbConfigured, apiKey, cacheTable, call, lastDone, callCount,
             tickCount>>
pageVars == <<toast, validated>>
vars == <<edgeVars, pageVars, actVars>>

(***************************************************************************)
(* Bounds of the model.                                                    *)
(***************************************************************************)
MaxOps == 2          \* user operations (addEdge / deleteEdge) per session
ClockStart == 1000   \* first Date.now() value; far above any serial id

(***************************************************************************)
(* Generic helpers.                                                        *)
(***************************************************************************)
\* Array.prototype.filter
RECURSIVE SeqFilterNotId(_, _)
SeqFilterNotId(s, id) ==
    IF s = <<>> THEN <<>>
    ELSE IF Head(s).id # id THEN <<Head(s)>> \o SeqFilterNotId(Tail(s), id)
         ELSE SeqFilterNotId(Tail(s), id)

SeqToSet(s) == {s[i] : i \in DOMAIN s}

Ids(s) == {s[i].id : i \in DOMAIN s}

NoEdge == [none |-> TRUE]     \* undefined (Array.prototype.find found nothing)
NoItem == <<"null">>          \* localStorage.getItem returned null
NoOp == [kind |-> "none"]

\* useState(null) of the toast
NoToast == [none |-> TRUE]

\* No addEdge has been validated yet.
NoValidation == [none |-> TRUE]

\* The toast and the validation record of a page that shows no toast: the
\* revisions without name validation never leave this state.
PageIdle ==
    /\ toast = NoToast
    /\ validated = NoValidation

\* Array.prototype.find((e) => e.id === id)
Find(s, id) ==
    IF \E i \in DOMAIN s : s[i].id = id
    THEN s[CHOOSE i \in DOMAIN s : s[i].id = id /\ \A j \in 1..(i-1) : s[j].id # id]
    ELSE NoEdge

(***************************************************************************)
(* JSON.stringify / JSON.parse of an edge list.  The text is modelled as   *)
(* the list of each object's members in insertion order.                   *)
(***************************************************************************)
Members(e) ==
    IF "createdAt" \in DOMAIN e
    THEN << <<"id", e.id>>, <<"source", e.source>>, <<"target", e.target>>,
            <<"createdAt", e.createdAt>> >>
    ELSE << <<"id", e.id>>, <<"source", e.source>>, <<"target", e.target>> >>

JsonStringify(es) == [i \in DOMAIN es |-> Members(es[i])]

ParseObject(ms) ==
    [k \in {ms[j][1] : j \in DOMAIN ms} |->
        ms[CHOOSE j \in DOMAIN ms : ms[j][1] = k][2]]

JsonParse(txt) == [i \in DOMAIN txt |-> ParseObject(txt[i])]

(***************************************************************************)
(* EdgeStore constants and inputs.                                         *)
(***************************************************************************)
INITIAL_EDGES ==
    << [id |-> 1, source |-> "vitalik.eth", target |-> "balajis.eth"],
       [id |-> 2, source |-> "vitalik.eth", target |-> "nick.eth"],
       [id |-> 3, source |-> "balajis.eth", target |-> "nick.eth"],
       [id |-> 4, source |-> "nick.eth", target |-> "brantly.eth"] >>

\* (source, target) pairs a user submits; GraphView trims them and rejects
\* an empty side before it calls onAddEdge.
AddInputs == { <<"a.eth", "b.eth">> }

\* Values Date.now() returns during the session: two calls can fall into the
\* same millisecond or into different ones.
ClockValues == {ClockStart, ClockStart + 1}

\* Edges whose delete button the user presses: every edge of the view but the
\* last two demo edges (which behave as the second one does).
DeleteInputs == Ids(edges) \ {INITIAL_EDGES[3].id, INITIAL_EDGES[4].id}

\* Contents the edges table can have when the page is opened.
InitialTables ==
    { <<>>,
      << [id |-> 7, source |-> "vitalik.eth", target |-> "nick.eth",
          createdAt |-> 10] >> }

\* Contents of the "ens-graph-edges" item left by an earlier session.
InitialItems ==
    { NoItem,
      JsonStringify(<< [id |-> 2, source |-> "vitalik.eth", target |-> "nick.eth"],
                       [id |-> 900, source |-> "a.eth", target |-> "b.eth"] >>) }

\* Outcomes of one fetch("/api/edges"): the handler ran and answered 200, the
\* handler's database call threw and it answered 500, or fetch itself rejected.
ServeOutcomes == {"ok", "error500", "reject"}

(***************************************************************************)
(* Store mode of the specification's state machine, read off the hooks.    *)
(***************************************************************************)
Mode ==
    IF useLocalStorage THEN "LocalFallback"
    ELSE IF loading THEN "Uninitialized"
    ELSE "Persistent"

\* useEffect(() => { if (useLocalStorage && edges.length > 0) setItem(...) })
SaveEffect(newEdges, newFlag, item) ==
    IF newFlag /\ Len(newEdges) > 0 THEN JsonStringify(newEdges) ELSE item

\* Every other request in flight has seen the view change under it.
MarkOverlap(ops, self) ==
    { IF o.op = self THEN o ELSE [o EXCEPT !.overlap = TRUE] : o \in ops }

(***************************************************************************)
(* /api/edges route handlers (server side).                                *)
(***************************************************************************)
\* GET: db.select().from(edges)
ApiGet(outcome) ==
    IF outcome = "ok" THEN [status |-> 200, body |-> table]
    ELSE IF outcome = "error500" THEN [status |-> 500, body |-> <<>>]
    ELSE [status |-> 0, body |-> <<>>]

\* POST: db.insert(edges).values({source, target}).returning()
NewRow(o) ==
    [id |-> serial, source |-> o.source, target |-> o.target, createdAt |-> clock]

ApiPost(o, outcome) ==
    IF outcome = "ok" THEN [status |-> 200, body |-> NewRow(o)]
    ELSE IF outcome = "error500" THEN [status |-> 500, body |-> NoEdge]
    ELSE [status |-> 0, body |-> NoEdge]

\* DELETE: db.delete(edges).where(eq(edges.id, id))
ApiDelete(o, outcome) ==
    IF outcome = "ok" THEN [status |-> 200, body |-> NoEdge]
    ELSE IF outcome = "error500" THEN [status |-> 500, body |-> NoEdge]
    ELSE [status |-> 0, body |-> NoEdge]

\* The server handles one request in flight, or the request is lost.
Serve(o, outcome) ==
    /\ o \in inflight
    /\ o.stage = "sent"
    /\ LET resp == CASE o.kind = "load" -> ApiGet(outcome)
                     [] o.kind = "add" -> ApiPost(o, outcome)
                     [] OTHER -> ApiDelete(o, outcome)
       IN /\ inflight' = (inflight \ {o}) \cup
                          {[o EXCEPT !.stage = "answered", !.response = resp]}
          /\ IF outcome = "ok" /\ o.kind = "add"
             THEN /\ table' = Append(table, NewRow(o))
                  /\ serial' = serial + 1
             ELSE IF outcome = "ok" /\ o.kind = "delete"
             THEN /\ table' = SeqFilterNotId(table, o.id)
                  /\ serial' = serial
             ELSE UNCHANGED <<table, serial>>
    /\ UNCHANGED <<edges, loading, syncing, useLocalStorage, localStorage, clock,
                   opCount, reqCount, done>>
    /\ UNCHANGED <<pageVars, actVars>>

(***************************************************************************)
(* GraphPage.loadEdges: the continuation after fetch("/api/edges").        *)
(***************************************************************************)
\* res.ok: the status is in the range 200-299; a rejected fetch has none.
ResOk(resp) == resp.status >= 200 /\ resp.status <= 299

\* The try-branch of loadEdges without its setEdges(data).
LoadedViewKept(view, data) == view

\* try-branch of loadEdges: the view after a successful GET
LoadedView(view, data) == IF Len(data) > 0 THEN data ELSE view

\* The catch-branch of loadEdges without its read of the stored item.
FallbackViewUnread(view, item) == view

\* catch-branch of loadEdges: the view after a failed GET
FallbackView(view, item) == IF item # NoItem THEN JsonParse(item) ELSE view

\* catch-branch of loadEdges: setUseLocalStorage(true)
FlagAfterLoad(resp, flag) == IF ResOk(resp) THEN flag ELSE TRUE

LoadComplete(o) ==
    /\ o \in inflight
    /\ o.kind = "load"
    /\ o.stage = "answered"
    /\ LET newEdges == IF ResOk(o.response)
                       THEN LoadedView(edges, o.response.body)
                       ELSE FallbackView(edges, localStorage)
           newFlag == FlagAfterLoad(o.response, useLocalStorage)
       IN /\ edges' = newEdges
          /\ useLocalStorage' = newFlag
          /\ localStorage' = SaveEffect(newEdges, newFlag, localStorage)
          /\ inflight' = IF newEdges # edges
                         THEN MarkOverlap(inflight \ {o}, o.op)
                         ELSE inflight \ {o}
          /\ done' = [kind |-> "load", ok |-> ResOk(o.response), op |-> o.op,
                      overlap |-> o.overlap, mode |-> o.mode, pre |-> o.pre,
                      post |-> newEdges,
                      id |-> 0, edge |-> NoEdge]
    /\ loading' = FALSE
    /\ UNCHANGED <<syncing, table, serial, clock, opCount, reqCount>>
    /\ UNCHANGED <<pageVars, actVars>>

(***************************************************************************)
(* GraphPage.handleAddEdge.                                                *)
(***************************************************************************)
\* handleAddEdge without its early return in fallback mode.
AddRequestAlways(flag, tempId, source, target, view) ==
    {[op |-> opCount + 1, kind |-> "add", stage |-> "sent", id |-> tempId,
      source |-> source, target |-> target, edge |-> NoEdge,
      response |-> [status |-> 0, body |-> NoEdge],
      pre |-> view, overlap |-> FALSE, mode |-> Mode]}

\* The request handleAddEdge issues, or none in fallback mode.
AddRequest(flag, tempId, source, target, view) ==
    IF flag THEN {}
    ELSE {[op |-> opCount + 1, kind |-> "add", stage |-> "sent", id |-> tempId,
           source |-> source, target |-> target, edge |-> NoEdge,
           response |-> [status |-> 0, body |-> NoEdge],
           pre |-> view, overlap |-> FALSE, mode |-> Mode]}

\* tempId is the value Date.now() returns: the time of the previous reading
\* or a later one.
AddEdge(source, target, tempId) ==
    /\ opCount < MaxOps
    /\ tempId >= clock
    /\ clock' = tempId
    /\ LET
           newEdge == [id |-> tempId, source |-> source, target |-> target]
           newEdges == Append(edges, newEdge)
           req == AddRequest(useLocalStorage, tempId, source, target, edges)
       IN /\ edges' = newEdges
          /\ localStorage' = SaveEffect(newEdges, useLocalStorage, localStorage)
          /\ inflight' = MarkOverlap(inflight, 0) \cup req
          /\ reqCount' = reqCount + Cardinality(req)
          /\ syncing' = IF req = {} THEN syncing ELSE TRUE
          /\ done' = IF req = {}
                     THEN [kind |-> "add", ok |-> TRUE, op |-> opCount + 1,
                           overlap |-> FALSE, mode |-> Mode, pre |-> edges,
                           post |-> newEdges,
                           id |-> tempId, edge |-> newEdge]
                     ELSE done
    /\ opCount' = opCount + 1
    /\ UNCHANGED <<loading, useLocalStorage, table, serial>>
    /\ UNCHANGED <<pageVars, actVars>>

\* The view after the POST has been answered (or the fetch has rejected).
\* A rejected fetch is the only path into the catch block; a non-2xx answer
\* skips both the reconciliation and the rollback.
ViewAfterAdd(view, o) ==
    IF o.response.status = 0
    THEN SeqFilterNotId(view, o.id)
    ELSE IF ResOk(o.response)
    THEN [i \in DOMAIN view |->
             IF view[i].id = o.id
             THEN [view[i] EXCEPT !.id = o.response.body.id]
             ELSE view[i]]
    ELSE view

AddComplete(o) ==
    /\ o \in inflight
    /\ o.kind = "add"
    /\ o.stage = "answered"
    /\ LET newEdges == ViewAfterAdd(edges, o)
       IN /\ edges' = newEdges
          /\ localStorage' = SaveEffect(newEdges, useLocalStorage, localStorage)
          /\ inflight' = IF newEdges # edges
                         THEN MarkOverlap(inflight \ {o}, o.op)
                         ELSE inflight \ {o}
          /\ done' = [kind |-> "add", ok |-> ResOk(o.response), op |-> o.op,
                      overlap |-> o.overlap, mode |-> o.mode, pre |-> o.pre,
                      post |-> newEdges,
                      id |-> o.id, edge |-> NoEdge]
    /\ syncing' = FALSE
    /\ UNCHANGED <<loading, useLocalStorage, table, serial, clock, opCount,
                   reqCount>>
    /\ UNCHANGED <<pageVars, actVars>>

(***************************************************************************)
(* GraphPage.handleDeleteEdge.                                             *)
(***************************************************************************)
DeleteRequest(flag, id, edgeToDelete, view) ==
    IF flag THEN {}
    ELSE {[op |-> opCount + 1, kind |-> "delete", stage |-> "sent", id |-> id,
           source |-> "", target |-> "", edge |-> edgeToDelete,
           response |-> [status |-> 0, body |-> NoEdge],
           pre |-> view, overlap |-> FALSE, mode |-> Mode]}

\* The delete button is rendered per edge of the view: id is one of its ids.
DeleteEdge(id) ==
    /\ opCount < MaxOps
    /\ id \in Ids(edges)
    /\ LET edgeToDelete == Find(edges, id)
           newEdges == SeqFilterNotId(edges, id)
           req == DeleteRequest(useLocalStorage, id, edgeToDelete, edges)
       IN /\ edges' = newEdges
          /\ localStorage' = SaveEffect(newEdges, useLocalStorage, localStorage)
          /\ inflight' = MarkOverlap(inflight, 0) \cup req
          /\ reqCount' = reqCount + Cardinality(req)
          /\ syncing' = IF req = {} THEN syncing ELSE TRUE
          /\ done' = IF req = {}
                     THEN [kind |-> "delete", ok |-> TRUE, op |-> opCount + 1,
                           overlap |-> FALSE, mode |-> Mode, pre |-> edges,
                           post |-> newEdges,
                           id |-> id, edge |-> edgeToDelete]
                     ELSE done
    /\ opCount' = opCount + 1
    /\ UNCHANGED <<loading, useLocalStorage, table, serial, clock>>
    /\ UNCHANGED <<pageVars, actVars>>

\* The view after the DELETE has been answered: both a rejected fetch and a
\* non-2xx answer reach the catch block, which re-appends edgeToDelete.
ViewAfterDelete(view, o) ==
    IF ResOk(o.response) THEN view
    ELSE IF o.edge # NoEdge THEN Append(view, o.edge)
    ELSE view

DeleteComplete(o) ==
    /\ o \in inflight
    /\ o.kind = "delete"
    /\ o.stage = "answered"
    /\ LET newEdges == ViewAfterDelete(edges, o)
       IN /\ edges' = newEdges
          /\ localStorage' = SaveEffect(newEdges, useLocalStorage, localStorage)
          /\ inflight' = IF newEdges # edges
                         THEN MarkOverlap(inflight \ {o}, o.op)
                         ELSE inflight \ {o}
          /\ done' = [kind |-> "delete", ok |-> ResOk(o.response), op |-> o.op,
                      overlap |-> o.overlap, mode |-> o.mode, pre |-> o.pre,
                      post |-> newEdges,
                      id |-> o.id, edge |-> o.edge]
    /\ syncing' = FALSE
    /\ UNCHANGED <<loading, useLocalStorage, table, serial, clock, opCount,
                   reqCount>>
    /\ UNCHANGED <<pageVars, actVars>>

(***************************************************************************)
(* ActivityStore: GET /api/activity.  Time is counted in seconds, the unit *)
(* of the explorer's timeStamp field; the server's time zone is UTC, so    *)
(* that local calendar arithmetic (setDate, setMonth) is UTC arithmetic.   *)
(***************************************************************************)
MaxCalls == 2        \* GET requests per behaviour
MaxTicks == 2        \* clock advances per behaviour
StartDay == 20760    \* the behaviour starts at 23:59:59 UTC of this day

CACHE_EXPIRATION_MS == 24 * 60 * 60 * 1000
FETCH_TIMEOUT_MS == 60000
daysToShow == 180
MsPerSecond == 1000
SecondsPerDay == 24 * 60 * 60

StartTime == StartDay * SecondsPerDay + (SecondsPerDay - 1)

\* Amounts of time that pass between two steps.
Deltas == {1, SecondsPerDay - 1}

\* Request handlers that can run at the same time.
Handlers == {"h1", "h2"}

\* A request is taken by the first handler unless that one is busy.
FirstHandler == "h1"

\* Values of the address query parameter.
EmptyAddress == <<>>
Addresses == { EmptyAddress, <<"0", "x", "A", "b">>, <<"0", "x", "a", "b">> }

\* String.prototype.toLowerCase, on the characters addresses are made of
LowerChar(ch) ==
    CASE ch = "A" -> "a" [] ch = "B" -> "b" [] ch = "C" -> "c"
      [] ch = "D" -> "d" [] ch = "E" -> "e" [] ch = "F" -> "f"
      [] ch = "X" -> "x" [] OTHER -> ch

\* The address is used as the key in the spelling it came in.
KeepCase(str) == str

ToLowerCase(str) == [i \in DOMAIN str |-> LowerChar(str[i])]

CacheKeys == {ToLowerCase(a) : a \in Addresses \ {EmptyAddress}}

(***************************************************************************)
(* Calendar arithmetic of Date (proleptic Gregorian, UTC).                 *)
(***************************************************************************)
\* Day number (days since 1970-01-01) of the civil date y-m-d; d may exceed
\* the month's length, as in Date.setMonth, and then runs into the next.
DaysFromCivil(y, m, d) ==
    LET yy == IF m <= 2 THEN y - 1 ELSE y
        era == yy \div 400
        yoe == yy - era * 400
        mp == (m + 9) % 12
        doy == (153 * mp + 2) \div 5 + d - 1
        doe == yoe * 365 + yoe \div 4 - yoe \div 100 + doy
    IN era * 146097 + doe - 719468

\* Civil date <<year, month, day>> of day number z.
CivilFromDays(z) ==
    LET zz == z + 719468
        era == zz \div 146097
        doe == zz - era * 146097
        yoe == (doe - doe \div 1460 + doe \div 36524 - doe \div 146096) \div 365
        doy == doe - (365 * yoe + yoe \div 4 - yoe \div 100)
        mp == (5 * doy + 2) \div 153
        d == doy - (153 * mp + 2) \div 5 + 1
        m == IF mp < 10 THEN mp + 3 ELSE mp - 9
        y == yoe + era * 400 + (IF m <= 2 THEN 1 ELSE 0)
    IN <<y, m, d>>

\* date.toISOString().split('T')[0]: the UTC calendar date of instant t,
\* written as its day number (CivilFromDays gives its year, month and day).
DateStr(t) == t \div SecondsPerDay

\* A cutoff of 179 days before now instead of six calendar months.
SixMonthsAgoShort(t) == t - 179 * SecondsPerDay

\* sixMonthsAgo.setMonth(sixMonthsAgo.getMonth() - 6); getTime()
SixMonthsAgo(t) ==
    LET c == CivilFromDays(t \div SecondsPerDay)
        m0 == c[2] - 1 - 6
        y2 == IF m0 < 0 THEN c[1] - 1 ELSE c[1]
        m2 == (IF m0 < 0 THEN m0 + 12 ELSE m0) + 1
    IN DaysFromCivil(y2, m2, c[3]) * SecondsPerDay + (t % SecondsPerDay)

(***************************************************************************)
(* The explorer API.  A transaction carries timeStamp, the decimal text of *)
(* a number of seconds; NotANumber is a text parseInt cannot read.         *)
(***************************************************************************)
NotANumber == -1

Tx(ts) == [timeStamp |-> ts]

\* Response bodies the explorer can send at time t: results, and an error
\* reported in the body.
BodyResults(txs) == [status |-> "1", message |-> "OK", isArray |-> TRUE, result |-> txs]
BodyError ==
    [status |-> "0", message |-> "NOTOK", isArray |-> FALSE, result |-> <<>>]

Bodies(t) ==
    { BodyResults(<< Tx(t), Tx(t - 1), Tx(t - 179 * SecondsPerDay),
                     Tx(t - 200 * SecondsPerDay), Tx(NotANumber) >>),
      BodyError }

\* What one fetch of the explorer ends in: it rejects, it is aborted by the
\* timeout signal, it answers with a non-2xx status, its body is not JSON,
\* or it answers 200 with one of the bodies.
NoBody == [none |-> TRUE]
FetchFailures == {"rejected", "timeout", "httpError", "badJson"}

\* How the handler takes an outcome: only the timeout is told apart, by the
\* name of the error the catch block logs.
FailureKinds == {"failed", "timeout"}
FetchResults(t) ==
    {[settled |-> f, body |-> NoBody] : f \in FetchFailures}
        \cup {[settled |-> "ok", body |-> b] : b \in Bodies(t)}

(***************************************************************************)
(* Aggregation into the daily series.                                      *)
(***************************************************************************)
\* status === "1" && Array.isArray(result) ? result : []
Transactions(body) ==
    IF body.status = "1" /\ body.isArray THEN body.result ELSE <<>>

\* The forEach over allTransactions: the keys (dates) under which the
\* transactions are counted, one per counted transaction.
RECURSIVE CountedDates(_, _)
CountedDates(txs, sixMonthsAgoTimestamp) ==
    IF txs = <<>> THEN <<>>
    ELSE LET timestamp == Head(txs).timeStamp
             rest == CountedDates(Tail(txs), sixMonthsAgoTimestamp)
         IN IF timestamp # NotANumber /\ timestamp >= sixMonthsAgoTimestamp
            THEN <<DateStr(timestamp)>> \o rest
            ELSE rest

\* activityMap.get(dateStr) || 0
ActivityMapGet(dates, dateStr) ==
    Cardinality({i \in DOMAIN dates : dates[i] = dateStr})

\* The loop that fills activities: i runs from daysToShow - 1 down to 0.
BuildActivities(txs, today) ==
    LET dates == CountedDates(txs, SixMonthsAgo(today))
    IN [k \in 1..daysToShow |->
          LET dateStr == DateStr(today - (daysToShow - k) * SecondsPerDay)
          IN [date |-> dateStr, count |-> ActivityMapGet(dates, dateStr)]]

\* Math.max(...activities.map(a => a.count), 1)
MaxCountOf(activities) ==
    LET counts == {activities[k].count : k \in DOMAIN activities} \cup {1}
    IN CHOOSE m \in counts : \A n \in counts : n <= m

\* The empty series of the failure path.
EmptyActivities(today) ==
    [k \in 1..daysToShow |->
        [date |-> DateStr(today - (daysToShow - k) * SecondsPerDay), count |-> 0]]

\* JSON.stringify(activities) / JSON.parse(activitiesJson): the text lists,
\* per entry, the values of date and count in that order.
ActivitiesToJson(activities) ==
    [k \in DOMAIN activities |-> <<activities[k].date, activities[k].count>>]

ActivitiesFromJson(txt) ==
    [k \in DOMAIN txt |-> [date |-> txt[k][1], count |-> txt[k][2]]]

(***************************************************************************)
(* The activity_cache table.                                               *)
(***************************************************************************)
NoRow == [none |-> TRUE]

\* db.select().from(activityCache).where(eq(address, key)).limit(1)
SelectRow(rows, key) ==
    IF \E r \in rows : r.address = key
    THEN CHOOSE r \in rows : r.address = key
    ELSE NoRow

\* The insert without its onConflictDoUpdate and without the unique index.
UpsertAppending(rows, row) == rows \cup {row}

\* db.insert(...).values(row).onConflictDoUpdate({target: address, set: ...})
Upsert(rows, row) == {r \in rows : r.address # row.address} \cup {row}

(***************************************************************************)
(* Responses of GET.                                                       *)
(***************************************************************************)
NoResponse == [kind |-> "none"]

BadRequest ==
    [kind |-> "error", status |-> 400, activities |-> <<>>, maxCount |-> 0,
     cached |-> FALSE, stale |-> FALSE, demo |-> FALSE, error |-> TRUE,
     cacheAge |-> 0]

\* An exception that leaves GET: the framework answers 500.
Uncaught ==
    [kind |-> "raised", status |-> 500, activities |-> <<>>, maxCount |-> 0,
     cached |-> FALSE, stale |-> FALSE, demo |-> FALSE, error |-> TRUE,
     cacheAge |-> 0]

\* {activities: JSON.parse(...), maxCount, cached: true, cacheAge}
CachedResponse(row, cacheAge) ==
    [kind |-> "cached", status |-> 200,
     activities |-> ActivitiesFromJson(row.activitiesJson),
     maxCount |-> row.maxCount, cached |-> TRUE, stale |-> FALSE,
     demo |-> FALSE, error |-> FALSE,
     cacheAge |-> (cacheAge \div 60)]

\* {activities: reversedActivities, maxCount, cached: false}
FreshResponse(activities, maxCount) ==
    [kind |-> "fresh", status |-> 200, activities |-> activities,
     maxCount |-> maxCount, cached |-> FALSE, stale |-> FALSE, demo |-> FALSE,
     error |-> FALSE, cacheAge |-> 0]

\* A stale answer that keeps the flags but recomputes maxCount to its floor.
StaleResponseFloor(row) ==
    [kind |-> "stale", status |-> 200,
     activities |-> ActivitiesFromJson(row.activitiesJson),
     maxCount |-> 1, cached |-> TRUE, stale |-> TRUE,
     demo |-> FALSE, error |-> FALSE, cacheAge |-> 0]

\* {activities: JSON.parse(...), maxCount, cached: true, stale: true}
StaleResponse(row) ==
    [kind |-> "stale", status |-> 200,
     activities |-> ActivitiesFromJson(row.activitiesJson),
     maxCount |-> row.maxCount, cached |-> TRUE, stale |-> TRUE,
     demo |-> FALSE, error |-> FALSE, cacheAge |-> 0]

\* The demo answer of the reload-era revision of the route: a made-up series
\* scaled to 10.
DemoResponseScaled(today) ==
    [kind |-> "demo", status |-> 200, activities |-> EmptyActivities(today),
     maxCount |-> 10, cached |-> FALSE, stale |-> FALSE, demo |-> TRUE,
     error |-> FALSE, cacheAge |-> 0]

\* {activities, maxCount: 1, demo: true, error: "Failed to fetch ..."}
DemoResponse(today) ==
    [kind |-> "demo", status |-> 200, activities |-> EmptyActivities(today),
     maxCount |-> 1, cached |-> FALSE, stale |-> FALSE, demo |-> TRUE,
     error |-> TRUE, cacheAge |-> 0]

(***************************************************************************)
(* The GET handler, one step per await.  A call record holds the handler's *)
(* position and locals, and notes of what happened for the claims.         *)
(***************************************************************************)
NoCall == [none |-> TRUE]

IdleCall ==
    [pc |-> "idle", address |-> EmptyAddress,
     normalizedAddress |-> EmptyAddress,
     issuedAt |-> 0, allTransactions |-> <<>>, activities |-> <<>>,
     maxCount |-> 0, updatedAt |-> 0,
     response |-> NoResponse, respondedOn |-> 0, startedAt |-> 0,
     prev |-> NoCall, checkAt |-> 0, checkOk |-> FALSE, refreshed |-> FALSE,
     upstream |-> "none", wrote |-> FALSE, writeOk |-> FALSE,
     failEntry |-> FALSE, failReadOk |-> FALSE]

\* What a later call remembers of the call that returned before it started.
Summary(c) ==
    [startedAt |-> c.startedAt, refreshed |-> c.refreshed, wrote |-> c.wrote,
     kind |-> c.response.kind, address |-> c.address]

Respond(c, resp) ==
    [c EXCEPT !.pc = "done", !.response = resp, !.respondedOn = DateStr(now),
              !.activities = <<>>, !.maxCount = 0, !.updatedAt = 0]

\* The catch block of GET without its inner try: the stale read's exception
\* leaves the handler.
StaleReadThrowsUncaught(c) == Respond(c, Uncaught)

\* catch (cacheError) of the stale read: fall through to the empty series.
StaleReadThrows(c) == Respond(c, DemoResponse(now))

\* The catch block of GET up to its first await.
BeginFailure(c, why) ==
    LET c2 == [c EXCEPT !.upstream = why, !.issuedAt = 0]
    IN IF dbConfigured THEN [c2 EXCEPT !.pc = "staleRead"]
       ELSE Respond(c2, DemoResponse(now))

\* The try block of GET up to its first await: the two fetches are issued.
BeginRefresh(c) ==
    IF ~apiKey THEN BeginFailure(c, "nokey")
    ELSE [c EXCEPT !.pc = "awaitFetch", !.issuedAt = now, !.refreshed = TRUE]

\* The first cache read without its try: the exception leaves the handler.
CacheReadThrowsUncaught(c) == Respond(c, Uncaught)

\* catch (error) of the first cache read: logged, and the handler goes on
\* to the refresh.
CacheReadThrows(c) == BeginRefresh(c)

\* A cache entry is served only while younger than the expiration time.
IsFreshNever(cacheAge) == FALSE

\* An entry of exactly the expiration age still counts as fresh.
IsFreshInclusive(cacheAge) == cacheAge * MsPerSecond <= CACHE_EXPIRATION_MS

\* cacheAge < CACHE_EXPIRATION_MS
IsFresh(cacheAge) == cacheAge * MsPerSecond < CACHE_EXPIRATION_MS

SetCall(h, c2) ==
    /\ call' = [call EXCEPT ![h] = c2]
    /\ lastDone' = IF c2.pc = "done" /\ c2.normalizedAddress # EmptyAddress
                   THEN [lastDone EXCEPT ![c2.normalizedAddress] = Summary(c2)]
                   ELSE lastDone

\* GET is called: up to the first await.  The call keeps `noted` as the
\* record of the address it was called with.
StartNoting(h, address, noted) ==
    /\ call[h].pc \in {"idle", "done"}
    /\ h = FirstHandler \/ call[FirstHandler].pc \notin {"idle", "done"}
    /\ callCount < MaxCalls
    /\ callCount' = callCount + 1
    /\ LET key == ToLowerCase(address)
           c == [IdleCall EXCEPT !.address = noted,
                                 !.normalizedAddress = key,
                                 !.startedAt = now,
                                 !.prev = IF address = EmptyAddress THEN NoCall
                                          ELSE lastDone[key]]
       IN SetCall(h, IF address = EmptyAddress THEN Respond(c, BadRequest)
                     ELSE IF dbConfigured THEN [c EXCEPT !.pc = "cacheCheck"]
                     ELSE BeginRefresh(c))
    /\ UNCHANGED <<now, dbConfigured, apiKey, cacheTable, tickCount>>
    /\ UNCHANGED <<edgeVars, pageVars>>

\* GET is called; after line 31 the handler works with the normalized
\* address only, and no record of the spelling is kept.
Start(h, address) == StartNoting(h, address, EmptyAddress)

\* GET is called, and the spelling of the address is kept on record.
StartSequential(address) == StartNoting(FirstHandler, address, address)

\* The first cache read has been answered (or has thrown).
CacheCheck(h, readOk) ==
    /\ call[h].pc = "cacheCheck"
    /\ LET c == [call[h] EXCEPT !.checkAt = now, !.checkOk = readOk]
           cacheEntry == SelectRow(cacheTable, c.normalizedAddress)
           cacheAge == now - cacheEntry.updatedAt
       IN SetCall(h, IF ~readOk THEN CacheReadThrows(c)
                     ELSE IF cacheEntry # NoRow /\ IsFresh(cacheAge)
                     THEN Respond(c, CachedResponse(cacheEntry, cacheAge))
                     ELSE BeginRefresh(c))
    /\ UNCHANGED <<now, dbConfigured, apiKey, cacheTable, callCount, tickCount>>
    /\ UNCHANGED <<edgeVars, pageVars>>

\* The timeout signal has fired: every fetch still pending is aborted.
\* The fetch options without the signal: nothing ever aborts the pair.
TimedOutNever(c) == FALSE

TimedOut(c) == (now - c.issuedAt) * MsPerSecond >= FETCH_TIMEOUT_MS

\* How the pair of fetches ends, as the handler sees it: Promise.all
\* rejects, or a response is not ok, or a body is not JSON ("failed"), or the
\* signal aborts the pair ("timeout"), or both bodies are read.
PairOutcome(normal, internal) ==
    IF "timeout" \in {normal.settled, internal.settled} THEN "timeout"
    ELSE IF normal.settled # "ok" \/ internal.settled # "ok" THEN "failed"
    ELSE IF BodyError \in {normal.body, internal.body} THEN "bodyError"
    ELSE "ok"

\* Promise.all of the two fetches has settled: the rest of the try block up
\* to the cache write, whose values (updatedAt: new Date()) are built here.
FetchComplete(h, normal, internal) ==
    /\ call[h].pc = "awaitFetch"
    /\ IF TimedOut(call[h])
       THEN normal.settled = "timeout" /\ internal.settled = "timeout"
       ELSE normal.settled # "timeout" /\ internal.settled # "timeout"
    /\ LET c == call[h]
           outcome == PairOutcome(normal, internal)
           allTransactions == IF outcome \in FailureKinds THEN <<>>
                              ELSE Transactions(normal.body)
                                       \o Transactions(internal.body)
           activities == BuildActivities(allTransactions, now)
           maxCount == MaxCountOf(activities)
           c2 == [c EXCEPT !.upstream = outcome,
                           !.allTransactions = allTransactions,
                           !.activities = activities,
                           !.maxCount = maxCount, !.issuedAt = 0,
                           !.updatedAt = now]
       IN SetCall(h, IF outcome \in FailureKinds THEN BeginFailure(c, outcome)
                     ELSE IF dbConfigured THEN [c2 EXCEPT !.pc = "cacheWrite"]
                     ELSE Respond(c2, FreshResponse(activities, maxCount)))
    /\ UNCHANGED <<now, dbConfigured, apiKey, cacheTable, callCount, tickCount>>
    /\ UNCHANGED <<edgeVars, pageVars>>

\* The upsert has been answered (or has thrown); the fresh series is returned.
CacheWrite(h, writeOk) ==
    /\ call[h].pc = "cacheWrite"
    /\ LET c == call[h]
           row == [address |-> c.normalizedAddress,
                   activitiesJson |-> ActivitiesToJson(c.activities),
                   maxCount |-> c.maxCount, updatedAt |-> c.updatedAt]
       IN /\ cacheTable' = IF writeOk THEN Upsert(cacheTable, row) ELSE cacheTable
          /\ SetCall(h, Respond([c EXCEPT !.wrote = writeOk],
                                FreshResponse(c.activities, c.maxCount)))
    /\ UNCHANGED <<now, dbConfigured, apiKey, callCount, tickCount>>
    /\ UNCHANGED <<edgeVars, pageVars>>

\* The cache read of the catch block has been answered (or has thrown).
StaleRead(h, readOk) ==
    /\ call[h].pc = "staleRead"
    /\ LET cached == SelectRow(cacheTable, call[h].normalizedAddress)
           c == [call[h] EXCEPT !.failEntry = (cached # NoRow),
                                !.failReadOk = readOk]
       IN SetCall(h, IF ~readOk THEN StaleReadThrows(c)
                     ELSE IF cached # NoRow THEN Respond(c, StaleResponse(cached))
                     ELSE Respond(c, DemoResponse(now)))
    /\ UNCHANGED <<now, dbConfigured, apiKey, cacheTable, callCount, tickCount>>
    /\ UNCHANGED <<edgeVars, pageVars>>

\* Time passes on the server.  It is followed from the first request on and
\* while a request is running or still to come.
Tick(d) ==
    /\ tickCount < MaxTicks
    /\ callCount > 0
    /\ callCount < MaxCalls \/ \E h \in Handlers : call[h].pc \notin {"idle", "done"}
    /\ tickCount' = tickCount + 1
    /\ now' = now + d
    /\ UNCHANGED <<dbConfigured, apiKey, cacheTable, call, lastDone, callCount>>
    /\ UNCHANGED <<edgeVars, pageVars>>

\* The ActivityStore at rest, as the EdgeStore specifications keep it.
ActIdle ==
    /\ now = StartTime
    /\ dbConfigured = FALSE
    /\ apiKey = FALSE
    /\ cacheTable = {}
    /\ call = [h \in Handlers |-> IdleCall]
    /\ lastDone = [k \in CacheKeys |-> NoCall]
    /\ callCount = 0
    /\ tickCount = 0

\* The EdgeStore at rest, as the ActivityStore specification keeps it.
EdgeIdle ==
    /\ edges = <<>>
    /\ loading = TRUE
    /\ syncing = FALSE
    /\ useLocalStorage = FALSE
    /\ localStorage = NoItem
    /\ table = <<>>
    /\ serial = 1
    /\ clock = ClockStart
    /\ inflight = {}
    /\ opCount = 0
    /\ reqCount = 0
    /\ done = NoOp
    /\ PageIdle

ActivityInit ==
    /\ now = StartTime
    /\ dbConfigured \in BOOLEAN
    /\ apiKey \in BOOLEAN
    /\ cacheTable = {}
    /\ call = [h \in Handlers |-> IdleCall]
    /\ lastDone = [k \in CacheKeys |-> NoCall]
    /\ callCount = 0
    /\ tickCount = 0
    /\ EdgeIdle

ActivityNext ==
    \/ \E h \in Handlers, a \in Addresses : Start(h, a)
    \/ \E h \in Handlers, readOk \in BOOLEAN : CacheCheck(h, readOk)
    \/ \E h \in Handlers :
          \E normal \in FetchResults(now), internal \in FetchResults(now) :
             FetchComplete(h, normal, internal)
    \/ \E h \in Handlers, writeOk \in BOOLEAN : CacheWrite(h, writeOk)
    \/ \E h \in Handlers, readOk \in BOOLEAN : StaleRead(h, readOk)
    \/ \E d \in Deltas : Tick(d)

ActivitySpec == ActivityInit /\ [][ActivityNext]_vars

\* The requests arrive one after the other: each is taken by the first
\* handler after the one before it has returned.
SequentialNext ==
    \/ \E a \in Addresses : StartSequential(a)
    \/ \E readOk \in BOOLEAN : CacheCheck(FirstHandler, readOk)
    \/ \E normal \in FetchResults(now), internal \in FetchResults(now) :
          FetchComplete(FirstHandler, normal, internal)
    \/ \E writeOk \in BOOLEAN : CacheWrite(FirstHandler, writeOk)
    \/ \E readOk \in BOOLEAN : StaleRead(FirstHandler, readOk)
    \/ \E d \in Deltas : Tick(d)

SequentialSpec == ActivityInit /\ [][SequentialNext]_vars

(***************************************************************************)
(* The refresh under a clock that keeps running: while the pair of fetches *)
(* is awaited the 60 seconds of AbortSignal.timeout pass, whether or not   *)
(* the explorer ever answers.                                              *)
(***************************************************************************)
\* The 60 seconds since the signal was created have passed.
TimeoutElapses(h) ==
    /\ call[h].pc = "awaitFetch"
    /\ (now - call[h].issuedAt) * MsPerSecond < FETCH_TIMEOUT_MS
    /\ now' = call[h].issuedAt + (FETCH_TIMEOUT_MS \div MsPerSecond)
    /\ UNCHANGED <<dbConfigured, apiKey, cacheTable, call, lastDone, callCount,
                   tickCount>>
    /\ UNCHANGED <<edgeVars, pageVars>>

\* The signal aborts both fetches and Promise.all rejects.
TimeoutFires(h) ==
    /\ call[h].pc = "awaitFetch"
    /\ TimedOut(call[h])
    /\ \E normal \in FetchResults(now), internal \in FetchResults(now) :
          FetchComplete(h, normal, internal)

\* A database call of the handler settles: it is answered or it throws.
DatabaseSettles(h) ==
    \/ \E readOk \in BOOLEAN : CacheCheck(h, readOk)
    \/ \E writeOk \in BOOLEAN : CacheWrite(h, writeOk)
    \/ \E readOk \in BOOLEAN : StaleRead(h, readOk)

BoundedNext ==
    \/ SequentialNext
    \/ TimeoutElapses(FirstHandler)

\* Time passes and a fired timer runs its callback; a database call settles.
\* Nothing is assumed about the explorer: its answers may never come.
BoundedSpec ==
    /\ ActivityInit
    /\ [][BoundedNext]_vars
    /\ WF_vars(TimeoutElapses(FirstHandler))
    /\ WF_vars(TimeoutFires(FirstHandler))
    /\ WF_vars(DatabaseSettles(FirstHandler))

(***************************************************************************)
(* The aggregation on days chosen for the calendar: month ends whose day   *)
(* does not exist six months earlier, a leap year, the turn of the year,   *)
(* each at the first and at the last second of the day.                    *)
(***************************************************************************)
AggregationDays ==
    { <<2026, 8, 31>>, <<2026, 8, 29>>, <<2024, 8, 31>>, <<2026, 5, 31>>,
      <<2026, 12, 31>>, <<2026, 3, 1>> }

AggregationTimes ==
    { DaysFromCivil(d[1], d[2], d[3]) * SecondsPerDay + s :
         d \in AggregationDays, s \in {0, SecondsPerDay - 1} }

\* The first second of the day that lies n days before the day of t.
DayStart(t, n) == ((t \div SecondsPerDay) - n) * SecondsPerDay

\* Transaction lists the explorer answers with at time t: two transactions
\* of today, one at the first second of the first day of the window, one a
\* second earlier, one of tomorrow, one unreadable timestamp; and a list of
\* one transaction of yesterday.
AggregationBodies(t) ==
    { BodyResults(<< Tx(t), Tx(DayStart(t, 0)), Tx(DayStart(t, daysToShow - 1)),
                     Tx(DayStart(t, daysToShow - 1) - 1),
                     Tx(DayStart(t, -1)), Tx(NotANumber) >>),
      BodyResults(<< Tx(DayStart(t, 1)) >>),
      BodyError }

AggregationResults(t) ==
    {[settled |-> "rejected", body |-> NoBody]}
        \cup {[settled |-> "ok", body |-> b] : b \in AggregationBodies(t)}

AggregationInit ==
    /\ now \in AggregationTimes
    /\ dbConfigured \in BOOLEAN
    /\ apiKey = TRUE
    /\ cacheTable = {}
    /\ call = [h \in Handlers |-> IdleCall]
    /\ lastDone = [k \in CacheKeys |-> NoCall]
    /\ callCount = 0
    /\ tickCount = 0
    /\ EdgeIdle

AggregationNext ==
    \/ \E a \in Addresses : StartSequential(a)
    \/ \E readOk \in BOOLEAN : CacheCheck(FirstHandler, readOk)
    \/ \E normal \in AggregationResults(now), internal \in AggregationResults(now) :
          FetchComplete(FirstHandler, normal, internal)
    \/ \E writeOk \in BOOLEAN : CacheWrite(FirstHandler, writeOk)
    \/ \E readOk \in BOOLEAN : StaleRead(FirstHandler, readOk)

AggregationSpec == AggregationInit /\ [][AggregationNext]_vars

(***************************************************************************)
(* EdgeStore specification.  The page mounts with the demo edges shown and *)
(* the initial loadEdges request already issued by the mount effect.       *)
(***************************************************************************)
LoadRequest ==
    [op |-> 0, kind |-> "load", stage |-> "sent", id |-> 0, source |-> "",
     target |-> "", edge |-> NoEdge, response |-> [status |-> 0, body |-> <<>>],
     pre |-> INITIAL_EDGES, overlap |-> FALSE, mode |-> "Uninitialized"]

SerialAfter(rows) ==
    IF rows = <<>> THEN 1
    ELSE 1 + (CHOOSE m \in Ids(rows) : \A n \in Ids(rows) : n <= m)

Init ==
    /\ edges = INITIAL_EDGES
    /\ loading = TRUE
    /\ syncing = FALSE
    /\ useLocalStorage = FALSE
    /\ localStorage \in InitialItems
    /\ table \in InitialTables
    /\ serial = SerialAfter(table)
    /\ clock = ClockStart
    /\ inflight = {LoadRequest}
    /\ opCount = 0
    /\ reqCount = 1
    /\ done = NoOp
    /\ PageIdle
    /\ ActIdle

Next ==
    \/ \E o \in inflight, outcome \in ServeOutcomes : Serve(o, outcome)
    \/ \E o \in inflight : LoadComplete(o)
    \/ \E io \in AddInputs, t \in ClockValues : AddEdge(io[1], io[2], t)
    \/ \E o \in inflight : AddComplete(o)
    \/ \E id \in DeleteInputs : DeleteEdge(id)
    \/ \E o \in inflight : DeleteComplete(o)

Spec == Init /\ [][Next]_vars

(***************************************************************************)
(* The reload revision of GraphPage (src/app/graph/page.tsx): no optimistic *)
(* update; a mutation the backend accepted is followed by a new loadEdges. *)
(* The page renders GraphView only once the first load has completed.      *)
(***************************************************************************)
\* try-branch of loadEdges: an empty table shows the demo edges
LoadedViewReload(data) == IF Len(data) > 0 THEN data ELSE INITIAL_EDGES

\* catch-branch of loadEdges
FallbackViewReload(item) == IF item # NoItem THEN JsonParse(item) ELSE INITIAL_EDGES

\* The loadEdges() call that follows an accepted mutation.
ReloadRequest(resp, view) ==
    IF ResOk(resp)
    THEN {[op |-> opCount + 1, kind |-> "load", stage |-> "sent", id |-> 0,
           source |-> "", target |-> "", edge |-> NoEdge,
           response |-> [status |-> 0, body |-> <<>>],
           pre |-> view, overlap |-> FALSE, mode |-> Mode]}
    ELSE {}

LoadCompleteReload(o) ==
    /\ o \in inflight
    /\ o.kind = "load"
    /\ o.stage = "answered"
    /\ LET newEdges == IF ResOk(o.response)
                       THEN LoadedViewReload(o.response.body)
                       ELSE FallbackViewReload(localStorage)
           newFlag == FlagAfterLoad(o.response, useLocalStorage)
       IN /\ edges' = newEdges
          /\ useLocalStorage' = newFlag
          /\ localStorage' = SaveEffect(newEdges, newFlag, localStorage)
          /\ inflight' = inflight \ {o}
          /\ done' = [kind |-> "load", ok |-> ResOk(o.response), op |-> o.op,
                      overlap |-> o.overlap, mode |-> o.mode, pre |-> o.pre,
                      post |-> newEdges, id |-> 0, edge |-> NoEdge]
    /\ loading' = FALSE
    /\ UNCHANGED <<syncing, table, serial, clock, opCount, reqCount>>
    /\ UNCHANGED <<pageVars, actVars>>

AddEdgeReload(source, target, tempId) ==
    /\ ~loading
    /\ opCount < MaxOps
    /\ tempId >= clock
    /\ clock' = tempId
    /\ LET newEdge == [source |-> source, target |-> target, id |-> tempId]
           newEdges == IF useLocalStorage THEN Append(edges, newEdge) ELSE edges
           req == AddRequest(useLocalStorage, tempId, source, target, edges)
       IN /\ edges' = newEdges
          /\ localStorage' = SaveEffect(newEdges, useLocalStorage, localStorage)
          /\ inflight' = inflight \cup req
          /\ reqCount' = reqCount + Cardinality(req)
          /\ done' = IF req = {}
                     THEN [kind |-> "add", ok |-> TRUE, op |-> opCount + 1,
                           overlap |-> FALSE, mode |-> Mode, pre |-> edges,
                           post |-> newEdges, id |-> tempId, edge |-> newEdge]
                     ELSE done
    /\ opCount' = opCount + 1
    /\ UNCHANGED <<loading, syncing, useLocalStorage, table, serial>>
    /\ UNCHANGED <<pageVars, actVars>>

DeleteEdgeReload(id) ==
    /\ ~loading
    /\ opCount < MaxOps
    /\ id \in Ids(edges)
    /\ LET newEdges == IF useLocalStorage THEN SeqFilterNotId(edges, id) ELSE edges
           req == DeleteRequest(useLocalStorage, id, NoEdge, edges)
       IN /\ edges' = newEdges
          /\ localStorage' = SaveEffect(newEdges, useLocalStorage, localStorage)
          /\ inflight' = inflight \cup req
          /\ reqCount' = reqCount + Cardinality(req)
          /\ done' = IF req = {}
                     THEN [kind |-> "delete", ok |-> TRUE, op |-> opCount + 1,
                           overlap |-> FALSE, mode |-> Mode, pre |-> edges,
                           post |-> newEdges, id |-> id, edge |-> NoEdge]
                     ELSE done
    /\ opCount' = opCount + 1
    /\ UNCHANGED <<loading, syncing, useLocalStorage, table, serial, clock>>
    /\ UNCHANGED <<pageVars, actVars>>

\* Continuation of handleAddEdge / handleDeleteEdge after the POST / DELETE:
\* if (res.ok) await loadEdges()
MutationCompleteReload(o) ==
    /\ o \in inflight
    /\ o.kind \in {"add", "delete"}
    /\ o.stage = "answered"
    /\ LET req == ReloadRequest(o.response, edges)
       IN /\ inflight' = (inflight \ {o}) \cup req
          /\ reqCount' = reqCount + Cardinality(req)
          /\ opCount' = opCount + Cardinality(req)
    /\ done' = [kind |-> o.kind, ok |-> ResOk(o.response), op |-> o.op,
                overlap |-> o.overlap, mode |-> o.mode, pre |-> o.pre,
                post |-> edges, id |-> o.id, edge |-> NoEdge]
    /\ UNCHANGED <<edges, loading, syncing, useLocalStorage, localStorage, table,
                   serial, clock>>
    /\ UNCHANGED <<pageVars, actVars>>

InitReload ==
    /\ edges = <<>>
    /\ loading = TRUE
    /\ syncing = FALSE
    /\ useLocalStorage = FALSE
    /\ localStorage \in InitialItems
    /\ table \in InitialTables
    /\ serial = SerialAfter(table)
    /\ clock = ClockStart
    /\ inflight = {[LoadRequest EXCEPT !.pre = <<>>]}
    /\ opCount = 0
    /\ reqCount = 1
    /\ done = NoOp
    /\ PageIdle
    /\ ActIdle

NextReload ==
    \/ \E o \in inflight, outcome \in ServeOutcomes : Serve(o, outcome)
    \/ \E o \in inflight : LoadCompleteReload(o)
    \/ \E io \in AddInputs, t \in ClockValues : AddEdgeReload(io[1], io[2], t)
    \/ \E id \in DeleteInputs : DeleteEdgeReload(id)
    \/ \E o \in inflight : MutationCompleteReload(o)

ReloadSpec == InitReload /\ [][NextReload]_vars

(***************************************************************************)
(* The validating revision of GraphPage (the second module of              *)
(* src/app/api/ens-search/route.ts): handleAddEdge asks the name search    *)
(* about both names before the optimistic update and shows a toast.  Its   *)
(* loadEdges, handleDeleteEdge and the continuation after the POST are     *)
(* those of the optimistic revision.                                       *)
(***************************************************************************)
\* (source, target) pairs submitted to the validating page.
ValidatedInputs == { <<"A.eth", "b.eth">> }

\* String.prototype.toLowerCase on the names of the model.
LowerName(name) == IF name = "A.eth" THEN "a.eth" ELSE name

\* Answers of the ENS subgraph to the search query: the request failed (or
\* the body carried errors), or a list of at most ten domain names.
DomainLists == { <<>>, <<"a.eth", "b.eth">>, <<"ab.eth">> }

SubgraphOutcomes ==
    {[ok |-> FALSE, domains |-> <<>>]}
        \cup {[ok |-> TRUE, domains |-> d] : d \in DomainLists}

\* GET /api/ens-search: the names of the domains found, or the empty list
\* when the subgraph request fails.  Every name of the model has at least
\* three characters.
SearchGet(subgraph) ==
    IF ~subgraph.ok THEN <<>>
    ELSE [i \in DOMAIN subgraph.domains |-> [name |-> subgraph.domains[i]]]

\* One fetch("/api/ens-search?q=...") of the page: it rejects, or the route
\* answers 200 with its list.
Searches ==
    {[delivered |-> FALSE, subgraph |-> [ok |-> FALSE, domains |-> <<>>]]}
        \cup {[delivered |-> TRUE, subgraph |-> s] : s \in SubgraphOutcomes}

SearchReply(search) ==
    IF search.delivered THEN [status |-> 200, body |-> SearchGet(search.subgraph)]
    ELSE [status |-> 0, body |-> <<>>]

\* validateENSName that confirms every name.
ValidateAlways(name, reply) == TRUE

\* validateENSName: the exact name, ignoring case, is among the results
ValidateENSName(name, reply) ==
    /\ reply.status >= 200
    /\ reply.status <= 299
    /\ \E i \in DOMAIN reply.body :
          LowerName(reply.body[i].name) = LowerName(name)

\* The three error toasts and the success toast of handleAddEdge.
ToastBoth(source, target) ==
    [type |-> "error",
     message |-> <<"Both \"", source, "\" and \"", target, "\" don't exist">>]

ToastNotRegistered(name) ==
    [type |-> "error",
     message |-> <<"\"", name, "\" is not a registered ENS name">>]

ToastConnected(source, target) ==
    [type |-> "success",
     message |-> <<"Connected: ", source, " -> ", target>>]

\* handleAddEdge up to its first await: setSyncing(true) and the two searches
\* are under way.  The handler keeps the useLocalStorage of the render it
\* was created in.
AddEdgeValidating(source, target) ==
    /\ opCount < MaxOps
    /\ syncing' = TRUE
    /\ inflight' = inflight \cup
          {[op |-> opCount + 1, kind |-> "add", stage |-> "validating",
            id |-> 0, source |-> source, target |-> target, edge |-> NoEdge,
            response |-> [status |-> 0, body |-> NoEdge],
            pre |-> edges, overlap |-> FALSE, mode |-> Mode]}
    /\ opCount' = opCount + 1
    /\ UNCHANGED <<edges, loading, useLocalStorage, localStorage, table, serial,
                   clock, reqCount, done>>
    /\ UNCHANGED <<pageVars, actVars>>

\* handleAddEdge from the answers of both searches to its return or to the
\* POST: an error toast and nothing else unless both names were confirmed.
ValidationComplete(o, sourceSearch, targetSearch, tempId) ==
    /\ o \in inflight
    /\ o.kind = "add"
    /\ o.stage = "validating"
    /\ LET sourceValid == ValidateENSName(o.source, SearchReply(sourceSearch))
           targetValid == ValidateENSName(o.target, SearchReply(targetSearch))
           newEdge == [id |-> tempId, source |-> o.source, target |-> o.target]
           newEdges == Append(edges, newEdge)
           local == o.mode = "LocalFallback"
       IN /\ validated' = [op |-> o.op, source |-> o.source, target |-> o.target,
                           sourceSearch |-> sourceSearch,
                           targetSearch |-> targetSearch]
          /\ IF ~sourceValid \/ ~targetValid
             THEN /\ tempId = clock
                  /\ toast' = IF ~sourceValid /\ ~targetValid
                              THEN ToastBoth(o.source, o.target)
                              ELSE IF ~sourceValid
                              THEN ToastNotRegistered(o.source)
                              ELSE ToastNotRegistered(o.target)
                  /\ syncing' = FALSE
                  /\ inflight' = inflight \ {o}
                  /\ UNCHANGED <<edges, localStorage, clock, reqCount, done>>
             ELSE /\ tempId >= clock
                  /\ clock' = tempId
                  /\ edges' = newEdges
                  /\ toast' = ToastConnected(o.source, o.target)
                  /\ localStorage' = SaveEffect(newEdges, useLocalStorage,
                                                localStorage)
                  /\ syncing' = IF local THEN FALSE ELSE syncing
                  /\ inflight' =
                        MarkOverlap(inflight \ {o}, 0) \cup
                           (IF local THEN {}
                            ELSE {[o EXCEPT !.stage = "sent", !.id = tempId,
                                            !.pre = edges]})
                  /\ reqCount' = IF local THEN reqCount ELSE reqCount + 1
                  /\ done' = IF local
                             THEN [kind |-> "add", ok |-> TRUE, op |-> o.op,
                                   overlap |-> FALSE, mode |-> o.mode,
                                   pre |-> edges, post |-> newEdges,
                                   id |-> tempId, edge |-> newEdge]
                             ELSE done
    /\ UNCHANGED <<loading, useLocalStorage, table, serial, opCount>>
    /\ UNCHANGED actVars

\* setTimeout(() => setToast(null), 3000)
ToastTimeout ==
    /\ toast # NoToast
    /\ toast' = NoToast
    /\ UNCHANGED <<edgeVars, validated, actVars>>

ValidatingNext ==
    \/ \E o \in inflight, outcome \in ServeOutcomes : Serve(o, outcome)
    \/ \E o \in inflight : LoadComplete(o)
    \/ \E io \in ValidatedInputs : AddEdgeValidating(io[1], io[2])
    \/ \E o \in inflight, s \in Searches, t \in Searches, c \in ClockValues :
          ValidationComplete(o, s, t, c)
    \/ \E o \in inflight : AddComplete(o)
    \/ \E id \in DeleteInputs : DeleteEdge(id)
    \/ \E o \in inflight : DeleteComplete(o)
    \/ ToastTimeout

ValidatingSpec == Init /\ [][ValidatingNext]_vars

(***************************************************************************)
(* The /api/edges route handlers under arbitrary HTTP requests: the page   *)
(* always sends well-formed bodies, other clients need not.                *)
(***************************************************************************)
MaxRequests == 3     \* HTTP requests the route is sent

\* A field the JSON body does not have (undefined after destructuring).
Missing == "undefined"
MissingId == -1

\* request.json() rejects: the body is empty or is not JSON.
Unparsable == [parsed |-> FALSE, source |-> Missing, target |-> Missing,
               id |-> MissingId]

\* Bodies a POST can carry.
PostBodies ==
    {Unparsable}
        \cup {[parsed |-> TRUE, source |-> s, target |-> t, id |-> MissingId] :
                 s \in {Missing, "", "a.eth"}, t \in {Missing, "", "b.eth"}}

\* Bodies a DELETE can carry: no id, 0, the id of the stored row, another id.
DeleteBodies ==
    {Unparsable}
        \cup {[parsed |-> TRUE, source |-> Missing, target |-> Missing, id |-> i] :
                 i \in {MissingId, 0, 7, 99}}

\* JavaScript truthiness of a string field and of an id.
Truthy(v) == v \notin {Missing, ""}
TruthyId(i) == i \notin {MissingId, 0}

\* The answer of a handler and the table it leaves: rows, next serial value.
Reply(status, rows, next, reached) ==
    [status |-> status, rows |-> rows, next |-> next, reachedDb |-> reached]

\* export async function GET()
GET(dbOk) ==
    IF dbOk THEN Reply(200, table, serial, TRUE)
    ELSE Reply(500, table, serial, TRUE)

\* export async function POST(request)
POST(body, dbOk) ==
    IF ~body.parsed THEN Reply(500, table, serial, FALSE)
    ELSE IF ~Truthy(body.source) \/ ~Truthy(body.target)
    THEN Reply(400, table, serial, FALSE)
    ELSE IF ~dbOk THEN Reply(500, table, serial, TRUE)
    ELSE Reply(200,
               Append(table, [id |-> serial, source |-> body.source,
                              target |-> body.target, createdAt |-> clock]),
               serial + 1, TRUE)

\* export async function DELETE(request)
DELETE(body, dbOk) ==
    IF ~body.parsed THEN Reply(500, table, serial, FALSE)
    ELSE IF ~TruthyId(body.id) THEN Reply(400, table, serial, FALSE)
    ELSE IF ~dbOk THEN Reply(500, table, serial, TRUE)
    ELSE Reply(200, SeqFilterNotId(table, body.id), serial, TRUE)

\* One request is handled; `done` keeps the request and its answer.
Handle(method, body, dbOk, reply) ==
    /\ reqCount < MaxRequests
    /\ reqCount' = reqCount + 1
    /\ table' = reply.rows
    /\ serial' = reply.next
    /\ done' = [kind |-> "route", method |-> method, body |-> body,
                dbOk |-> dbOk, status |-> reply.status,
                reachedDb |-> reply.reachedDb, pre |-> table]
    /\ UNCHANGED <<edges, loading, syncing, useLocalStorage, localStorage,
                   clock, inflight, opCount>>
    /\ UNCHANGED <<pageVars, actVars>>

RouteGet(dbOk) == Handle("GET", Unparsable, dbOk, GET(dbOk))

RoutePost(body, dbOk) == Handle("POST", body, dbOk, POST(body, dbOk))

RouteDelete(body, dbOk) == Handle("DELETE", body, dbOk, DELETE(body, dbOk))

RouteInit ==
    /\ edges = <<>>
    /\ loading = TRUE
    /\ syncing = FALSE
    /\ useLocalStorage = FALSE
    /\ localStorage = NoItem
    /\ table \in InitialTables
    /\ serial = SerialAfter(table)
    /\ clock = ClockStart
    /\ inflight = {}
    /\ opCount = 0
    /\ reqCount = 0
    /\ done = NoOp
    /\ PageIdle
    /\ ActIdle

RouteNext ==
    \/ \E dbOk \in BOOLEAN : RouteGet(dbOk)
    \/ \E body \in PostBodies, dbOk \in BOOLEAN : RoutePost(body, dbOk)
    \/ \E body \in DeleteBodies, dbOk \in BOOLEAN : RouteDelete(body, dbOk)

RouteSpec == RouteInit /\ [][RouteNext]_vars

(***************************************************************************)
(* loadEdges of the optimistic GraphPage under every answer and every      *)
(* stored item: a 200 answer whose body is not JSON, and a stored item     *)
(* JSON.parse cannot read, are added to what Spec considers.               *)
(***************************************************************************)
\* A stored "ens-graph-edges" item that is not JSON.
UnparsableItem == <<"{">>

StoredItems == InitialItems \cup {UnparsableItem}

\* res.json() rejects for this answer.
IsMalformed(resp) == "malformed" \in DOMAIN resp

\* The GET is answered 200 with a body that is not JSON.
ServeMalformed(o) ==
    /\ o \in inflight
    /\ o.kind = "load"
    /\ o.stage = "sent"
    /\ inflight' = (inflight \ {o}) \cup
          {[o EXCEPT !.stage = "answered",
                     !.response = [status |-> 200, body |-> <<>>,
                                   malformed |-> TRUE]]}
    /\ UNCHANGED <<edges, loading, syncing, useLocalStorage, localStorage, table,
                   serial, clock, opCount, reqCount, done>>
    /\ UNCHANGED <<pageVars, actVars>>

\* The try block of loadEdges runs to its end.
TryCompletes(resp) == ResOk(resp) /\ ~IsMalformed(resp)

\* JSON.parse(stored) throws inside the catch block: the exception leaves
\* loadEdges and setLoading(false) is not reached.
CatchThrows(resp, item) == ~TryCompletes(resp) /\ item = UnparsableItem

\* loadEdges from the answer of the GET to its end, every path.
LoadEdges(o) ==
    /\ o \in inflight
    /\ o.kind = "load"
    /\ o.stage = "answered"
    /\ LET ok == TryCompletes(o.response)
           raised == CatchThrows(o.response, localStorage)
           newEdges == IF ok THEN LoadedView(edges, o.response.body)
                       ELSE IF raised THEN edges
                       ELSE FallbackView(edges, localStorage)
           newFlag == IF ok THEN useLocalStorage ELSE TRUE
       IN /\ edges' = newEdges
          /\ useLocalStorage' = newFlag
          /\ localStorage' = SaveEffect(newEdges, newFlag, localStorage)
          /\ loading' = IF raised THEN loading ELSE FALSE
          /\ inflight' = IF newEdges # edges
                         THEN MarkOverlap(inflight \ {o}, o.op)
                         ELSE inflight \ {o}
          /\ done' = [kind |-> IF raised THEN "uncaught" ELSE "load",
                      ok |-> ok, op |-> o.op, overlap |-> o.overlap,
                      mode |-> o.mode, pre |-> o.pre, post |-> newEdges,
                      id |-> 0, edge |-> NoEdge]
    /\ UNCHANGED <<syncing, table, serial, clock, opCount, reqCount>>
    /\ UNCHANGED <<pageVars, actVars>>

LoadInit ==
    /\ edges = INITIAL_EDGES
    /\ loading = TRUE
    /\ syncing = FALSE
    /\ useLocalStorage = FALSE
    /\ localStorage \in StoredItems
    /\ table \in InitialTables
    /\ serial = SerialAfter(table)
    /\ clock = ClockStart
    /\ inflight = {LoadRequest}
    /\ opCount = 0
    /\ reqCount = 1
    /\ done = NoOp
    /\ PageIdle
    /\ ActIdle

LoadNext ==
    \/ \E o \in inflight, outcome \in ServeOutcomes : Serve(o, outcome)
    \/ \E o \in inflight : ServeMalformed(o)
    \/ \E o \in inflight : LoadEdges(o)
    \/ \E io \in AddInputs, t \in ClockValues : AddEdge(io[1], io[2], t)
    \/ \E o \in inflight : AddComplete(o)
    \/ \E id \in DeleteInputs : DeleteEdge(id)
    \/ \E o \in inflight : DeleteComplete(o)

LoadSpec == LoadInit /\ [][LoadNext]_vars

(***************************************************************************)
(* Claims about the EdgeStore.                                             *)
(***************************************************************************)
\* The last completed operation was called in Persistent mode, its backend
\* request failed, and no other operation changed the view meanwhile.
FailedAlone(kind) ==
    /\ done.kind = kind
    /\ done.mode = "Persistent"
    /\ ~done.ok
    /\ ~done.overlap

\* C1: in Persistent mode, whenever the backend fails an addEdge request (the
\* fetch rejects or the API answers with a non-success status), the view after
\* the call equals, by value, the view before the call.
C1_AddRollback == FailedAlone("add") => done.post = done.pre

\* C2: in Persistent mode, whenever the backend fails a deleteEdge(id) request
\* for an edge E of the view, the view after the call contains E with its
\* original fields and, as a set, equals the view before the call.
C2_DeleteRollback ==
    FailedAlone("delete") =>
        /\ \A i \in DOMAIN done.pre :
              done.pre[i].id = done.id => done.pre[i] \in SeqToSet(done.post)
        /\ SeqToSet(done.post) = SeqToSet(done.pre)

\* C8: once the store is in LocalFallback mode, no step issues a request to
\* the edges backend: the request count never changes again.
C8_FallbackSticky == [][useLocalStorage => reqCount' = reqCount]_vars

\* A mutation was carried out in LocalFallback mode.
C8_Witness ==
    /\ useLocalStorage
    /\ done.kind \in {"add", "delete"}
    /\ done.mode = "LocalFallback"
    /\ done.post # done.pre

\* C9: the mode leaves Uninitialized only when the first listEdges completes
\* (to Persistent on success, to LocalFallback on failure), and Persistent and
\* LocalFallback are never left.
C9_ModeTerminal ==
    [][/\ Mode = "Persistent" => Mode' = "Persistent"
       /\ Mode = "LocalFallback" => Mode' = "LocalFallback"
       /\ (Mode = "Uninitialized" /\ Mode' # "Uninitialized") =>
             /\ done'.kind = "load"
             /\ done'.op = 0
             /\ Mode' = IF done'.ok THEN "Persistent" ELSE "LocalFallback"]_vars

(***************************************************************************)
(* ActivityStore claims.                                                   *)
(***************************************************************************)
\* A call that has returned.
Returned(h) == call[h].pc = "done" /\ call[h].normalizedAddress # EmptyAddress

\* The upstream refresh of the call failed or timed out.
UpstreamFailed(c) == c.upstream \in FailureKinds

\* The step by which handler h leaves the catch block's cache read.
LeavesStaleRead(h) == call[h].pc = "staleRead" /\ call'[h].pc = "done"

\* What the stale answer must be, given the entry the table holds.
AnswersWithEntry(h) ==
    LET entry == SelectRow(cacheTable, call[h].normalizedAddress)
        resp == call'[h].response
    IN /\ resp.stale
       /\ resp.activities = ActivitiesFromJson(entry.activitiesJson)
       /\ resp.maxCount = entry.maxCount
       /\ cacheTable' = cacheTable
       /\ ~call'[h].wrote

\* C3 (as stated): whenever a refresh attempt fails upstream and a cache
\* entry for the normalized address exists, of any age, the response carries
\* exactly that entry's series and maxCount, tagged stale, and the cache entry
\* is left unchanged.
C3_StaleFallback ==
    [][\A h \in Handlers :
          ( /\ LeavesStaleRead(h)
            /\ UpstreamFailed(call[h])
            /\ SelectRow(cacheTable, call[h].normalizedAddress) # NoRow )
          => AnswersWithEntry(h)]_vars

\* C3 (amended): whenever a refresh attempt fails upstream, a cache entry for
\* the normalized address exists, of any age, and the read of that entry in
\* the failure path succeeds, the response carries exactly that entry's series
\* and maxCount, tagged stale, and the cache entry is left unchanged.
C3_StaleFallbackReadable ==
    [][\A h \in Handlers :
          ( /\ LeavesStaleRead(h)
            /\ UpstreamFailed(call[h])
            /\ SelectRow(cacheTable, call[h].normalizedAddress) # NoRow
            /\ call'[h].failReadOk )
          => AnswersWithEntry(h)]_vars

\* C3 witness: a call whose refresh failed while an entry of maxCount above 1
\* was readable has returned the stale answer.
C3_Witness ==
    \E h \in Handlers :
       /\ Returned(h)
       /\ UpstreamFailed(call[h])
       /\ call[h].failEntry /\ call[h].failReadOk
       /\ call[h].response.stale
       /\ call[h].response.maxCount > 1

\* C4: whenever the upstream call of a refresh fails, times out or returns an
\* error status (a non-success HTTP status, or a body whose status flag
\* reports an error), the call takes the failure path: it performs no cache
\* write and does not answer with a freshly computed series.
C4_ErrorTakesFailurePath ==
    \A h \in Handlers :
       call[h].upstream \in FailureKinds \cup {"bodyError"}
       => /\ call[h].pc \in {"staleRead", "done"}
          /\ ~call[h].wrote
          /\ call[h].pc = "done" => call[h].response.kind \in {"stale", "demo"}

\* The second of two calls for one address made less than 24 hours apart,
\* the second starting after the first returned.
SecondWithinDay(c) ==
    /\ c.normalizedAddress # EmptyAddress
    /\ c.prev # NoCall
    /\ (c.startedAt - c.prev.startedAt) * MsPerSecond < CACHE_EXPIRATION_MS

\* The number of upstream refreshes of the two calls together.
RefreshesOfPair(c) ==
    (IF c.prev.refreshed THEN 1 ELSE 0) + (IF c.refreshed THEN 1 ELSE 0)

\* C5 (as stated): two calls for one address made less than 24 hours apart,
\* the second starting after the first has returned, cause at most one
\* upstream refresh in total, whatever the outcome of the first call.
C5_CacheFreshness ==
    \A h \in Handlers :
       SecondWithinDay(call[h]) => RefreshesOfPair(call[h]) <= 1

\* C5 (amended): two calls for one address, the second starting after the
\* first has returned, cause at most one upstream refresh in total provided
\* that the first call either was answered from fresh cache or refreshed and
\* wrote its result to the cache, and that the second call's cache read
\* succeeds and happens less than 24 hours after the first call started.
C5_CacheFreshnessAfterWrite ==
    \A h \in Handlers :
       LET c == call[h]
       IN ( /\ SecondWithinDay(c)
            /\ c.prev.kind = "cached" \/ (c.prev.refreshed /\ c.prev.wrote)
            /\ c.pc \notin {"idle", "cacheCheck"}
            /\ c.checkOk
            /\ (c.checkAt - c.prev.startedAt) * MsPerSecond < CACHE_EXPIRATION_MS )
          => RefreshesOfPair(c) <= 1

\* C5 witness: a second call within 24 hours of a first that refreshed and
\* wrote the cache has been answered from the cache.
C5_Witness ==
    \E h \in Handlers :
       /\ Returned(h)
       /\ SecondWithinDay(call[h])
       /\ call[h].prev.refreshed /\ call[h].prev.wrote
       /\ call[h].checkOk
       /\ call[h].startedAt > call[h].prev.startedAt
       /\ call[h].response.kind = "cached"
       /\ ~call[h].refreshed

\* A series of daysToShow entries on consecutive days whose last day lies
\* between the days `from` and `to`.
WellFormedSeries(activities, from, to) ==
    /\ Len(activities) = daysToShow
    /\ \A k \in 1..(daysToShow - 1) :
          activities[k + 1].date = activities[k].date + 1
    /\ activities[daysToShow].date >= from
    /\ activities[daysToShow].date <= to

\* C6: every response for a non-empty address, on every path, carries a
\* series of exactly 180 entries whose dates are consecutive calendar days
\* ending today (a day on which the call ran, from its start to its
\* response), and a maxCount of at least 1.
C6_SeriesEndsToday ==
    \A h \in Handlers :
       Returned(h)
       => /\ WellFormedSeries(call[h].response.activities,
                              DateStr(call[h].startedAt), call[h].respondedOn)
          /\ call[h].response.maxCount >= 1

C10_NeverRaises ==
    \A h \in Handlers :
       Returned(h)
       => /\ call[h].response.status = 200
          /\ call[h].response.kind \in {"fresh", "cached", "stale", "demo"}

\* C10 witness: a call whose cache read failed, whose upstream refresh then
\* failed and whose stale read failed as well has returned.
C10_Witness ==
    \E h \in Handlers :
       /\ Returned(h)
       /\ dbConfigured
       /\ ~call[h].checkOk
       /\ UpstreamFailed(call[h])
       /\ ~call[h].failReadOk

\* The step by which handler h leaves the first cache read.
LeavesCacheCheck(h) == call[h].pc = "cacheCheck" /\ call'[h].pc # "cacheCheck"

\* The step by which handler h leaves the cache write.
LeavesCacheWrite(h) == call[h].pc = "cacheWrite" /\ call'[h].pc = "done"

\* The step by which handler h returns from a call with an address.
Returns(h) ==
    /\ call[h].pc # "done"
    /\ call'[h].pc = "done"
    /\ call'[h].normalizedAddress # EmptyAddress

\* The kind of response a call gives when no database is configured: the
\* fresh series if the upstream answered, the demo series if it did not.
KindWithoutDatabase(c) ==
    IF c.upstream \in FailureKinds \cup {"nokey"} THEN "demo" ELSE "fresh"

\* A failed first cache read is followed by what follows a cache miss, and a
\* failed cache write by the fresh answer, the table left as it was.
DegradesToNoCache(h) ==
    /\ (LeavesCacheCheck(h) /\ ~call'[h].checkOk)
          => /\ call'[h].pc = IF apiKey THEN "awaitFetch" ELSE "staleRead"
             /\ call'[h].refreshed = apiKey
    /\ (LeavesCacheWrite(h) /\ ~call'[h].wrote)
          => /\ call'[h].response
                   = FreshResponse(call[h].activities, call[h].maxCount)
             /\ ~call'[h].response.cached
             /\ cacheTable' = cacheTable

\* C11 (as stated): when the first cache read fails the call goes on to the
\* upstream refresh as on a cache miss; when the cache write fails the call
\* still returns the fresh series with cached = false; in both cases the
\* response is the one the call gives with no database configured.
C11_StoreUnreachable ==
    [][\A h \in Handlers :
          /\ DegradesToNoCache(h)
          /\ (Returns(h) /\ dbConfigured /\ ~call'[h].checkOk)
                => call'[h].response.kind = KindWithoutDatabase(call'[h])]_vars

\* C11 (amended): as C11, but the response after a failed first cache read
\* is the one given with no database configured only if the refresh
\* succeeds, or the read of the failure path fails as well or finds no
\* entry; if the upstream fails and that later read finds an entry, the
\* stale entry is returned.
C11_StoreUnreachableThroughout ==
    [][\A h \in Handlers :
          /\ DegradesToNoCache(h)
          /\ (Returns(h) /\ dbConfigured /\ ~call'[h].checkOk)
                => IF call'[h].failReadOk /\ call'[h].failEntry
                   THEN call'[h].response.kind = "stale"
                   ELSE call'[h].response.kind = KindWithoutDatabase(call'[h])]_vars

\* C11 witness: a call whose first cache read failed and whose cache write
\* failed after a successful refresh has returned the fresh series.
C11_Witness ==
    \E h \in Handlers :
       /\ Returned(h)
       /\ dbConfigured
       /\ ~call[h].checkOk
       /\ call[h].upstream = "ok"
       /\ ~call[h].wrote
       /\ call[h].response.kind = "fresh"
       /\ call[h].response.maxCount > 1

\* C12: each call performs at most one cache write, and only when its
\* upstream refresh succeeded; a call answered from fresh cache, with the
\* stale entry or with demo data leaves the cache table unchanged.
C12_WriteOnlyOnSuccess ==
    [][/\ cacheTable' # cacheTable
          => \E h \in Handlers :
                /\ LeavesCacheWrite(h)
                /\ call[h].upstream = "ok"
                /\ ~call[h].wrote /\ call'[h].wrote
       /\ \A h \in Handlers :
             (Returns(h) /\ call'[h].response.kind \in {"cached", "stale", "demo"})
                => cacheTable' = cacheTable /\ ~call'[h].wrote]_vars

\* 24 hours, in seconds.
TwentyFourHours == 24 * 60 * 60

\* C13: when the first cache read finds an entry, the entry is served from
\* the cache, with no upstream call, if and only if its age (now minus
\* updatedAt) is strictly less than 24 hours; at exactly 24 hours it is
\* expired and the call goes on to the refresh.
C13_FreshnessBoundary ==
    [][\A h \in Handlers :
          LET entry == SelectRow(cacheTable, call[h].normalizedAddress)
          IN (LeavesCacheCheck(h) /\ call'[h].checkOk /\ entry # NoRow)
             => IF now - entry.updatedAt < TwentyFourHours
                THEN /\ call'[h].pc = "done"
                     /\ call'[h].response.kind = "cached"
                     /\ call'[h].response.cached
                     /\ ~call'[h].refreshed
                ELSE /\ call'[h].pc = IF apiKey THEN "awaitFetch" ELSE "staleRead"
                     /\ call'[h].refreshed = apiKey]_vars

\* C13 witness: a call has found an entry exactly 24 hours old and has
\* issued its upstream requests.
C13_Witness ==
    \E h \in Handlers :
       LET entry == SelectRow(cacheTable, call[h].normalizedAddress)
       IN /\ call[h].pc = "awaitFetch"
          /\ call[h].checkOk
          /\ entry # NoRow
          /\ call[h].checkAt - entry.updatedAt = TwentyFourHours
          /\ call[h].issuedAt = call[h].checkAt

\* Letters in their two cases.
CasePairs ==
    { {"a", "A"}, {"b", "B"}, {"c", "C"}, {"d", "D"}, {"e", "E"}, {"f", "F"},
      {"x", "X"} }

UpperCaseLetters == {"A", "B", "C", "D", "E", "F", "X"}

IsLowerCase(str) == \A i \in DOMAIN str : str[i] \notin UpperCaseLetters

\* The two strings differ at most in letter case.
EqualIgnoringCase(s, t) ==
    /\ Len(s) = Len(t)
    /\ \A i \in DOMAIN s : s[i] = t[i] \/ {s[i], t[i]} \in CasePairs

\* C14: a call reads and writes the cache under a key that is lowercase and
\* differs from its address at most in letter case, so that two calls whose
\* addresses differ only in case use one entry; the table holds at most one
\* entry per lowercase address and every stored key is lowercase.
C14_CaseNormalization ==
    /\ \A r \in cacheTable : IsLowerCase(r.address)
    /\ \A r1, r2 \in cacheTable :
          EqualIgnoringCase(r1.address, r2.address) => r1 = r2
    /\ \A h \in Handlers :
          call[h].address # EmptyAddress
          => /\ IsLowerCase(call[h].normalizedAddress)
             /\ EqualIgnoringCase(call[h].address, call[h].normalizedAddress)
             /\ (call[h].wrote \/ call[h].response.kind \in {"cached", "stale"})
                   => \E r \in cacheTable :
                         EqualIgnoringCase(r.address, call[h].address)

\* C14 witness: a call has been answered from the entry that an earlier
\* call, made with the other spelling of the address, wrote.
C14_Witness ==
    \E h \in Handlers :
       /\ Returned(h)
       /\ call[h].response.kind = "cached"
       /\ call[h].prev # NoCall
       /\ call[h].prev.wrote
       /\ call[h].prev.address # EmptyAddress
       /\ call[h].prev.address # call[h].address
       /\ IsLowerCase(call[h].prev.address)
       /\ Cardinality(cacheTable) = 1

(***************************************************************************)
(* EdgeStore claims on rollback, identifiers and fallback.                 *)
(***************************************************************************)
\* The number of copies of edge e in view s.
Count(s, e) == Cardinality({i \in DOMAIN s : s[i] = e})

\* The edges of either view.
EdgesOf(s, t) == SeqToSet(s) \cup SeqToSet(t)

\* Request o has been answered without success and this step completes it.
CompletesFailed(o, kind) ==
    /\ o \in inflight
    /\ o.kind = kind
    /\ o.stage = "answered"
    /\ ~ResOk(o.response)
    /\ \A o2 \in inflight' : o2.op # o.op

\* The edge an add appended.
OwnEdge(o) == [id |-> o.id, source |-> o.source, target |-> o.target]

\* C15: also when operations overlap, a failed delete re-inserts exactly one
\* copy of the edge it removed, with the values it had when removed, and that
\* edge is all it had removed; a failed add removes at most the one edge it
\* appended; no other edge is removed, duplicated or altered by a rollback.
C15_RollbackUnderInterleaving ==
    [][\A o \in inflight :
          /\ CompletesFailed(o, "add")
                => \A e \in EdgesOf(edges, edges') :
                      IF e = OwnEdge(o)
                      THEN Count(edges', e) \in {Count(edges, e) - 1, Count(edges, e)}
                      ELSE Count(edges', e) = Count(edges, e)
          /\ CompletesFailed(o, "delete")
                => /\ o.edge \in SeqToSet(o.pre)
                   /\ Cardinality({i \in DOMAIN o.pre : o.pre[i].id = o.id}) = 1
                   /\ \A e \in EdgesOf(edges, edges') :
                         Count(edges', e)
                            = Count(edges, e) + (IF e = o.edge THEN 1 ELSE 0)]_vars

\* C16: no two edges of the view share an id; in particular two temporary ids
\* issued in one session differ, and a temporary id differs from every backend
\* or demo id in the view.
C16_UniqueIds ==
    \A i, j \in DOMAIN edges : edges[i].id = edges[j].id => i = j

\* No add or delete request is in flight.
Quiescent == \A o \in inflight : o.kind = "load"

\* An id handleAddEdge read from the clock during this session.
IsTemporary(id) == id >= ClockStart

\* The ids of the rows of the edges table.
RowIds == {table[i].id : i \in DOMAIN table}

\* C17: in Persistent mode with no add or delete in flight, every edge of the
\* view carries a backend-assigned id and no backend row is shown by more than
\* one edge.
C17_NoLingeringTempIds ==
    (Mode = "Persistent" /\ Quiescent)
        => /\ \A i \in DOMAIN edges : ~IsTemporary(edges[i].id)
           /\ \A r \in RowIds :
                 Cardinality({i \in DOMAIN edges : edges[i].id = r}) <= 1

\* Request o is an add the backend accepted and this step completes it.
CompletesAccepted(o) ==
    /\ o \in inflight
    /\ o.kind = "add"
    /\ o.stage = "answered"
    /\ ResOk(o.response)
    /\ \A o2 \in inflight' : o2.op # o.op

\* The positions of the view the step changes.
Changed == {i \in DOMAIN edges : i \notin DOMAIN edges' \/ edges'[i] # edges[i]}

\* C18: when the backend accepts an add, the edge this add appended gets the
\* backend id in place (same position, source and target), the length of the
\* view is unchanged and no other edge changes.
C18_ReconcileInPlace ==
    [][\A o \in inflight :
          CompletesAccepted(o)
             => /\ Len(edges') = Len(edges)
                /\ Cardinality(Changed) <= 1
                /\ \A i \in Changed :
                      /\ edges[i] = OwnEdge(o)
                      /\ edges'[i] = [edges[i] EXCEPT !.id = o.response.body.id]
                /\ (OwnEdge(o) \in SeqToSet(edges)
                       /\ o.response.body.id # o.id) => Changed # {}]_vars

\* C19: in LocalFallback mode the list held in local storage equals the view,
\* also after a delete that removed the last remaining edge.
C19_WriteThrough ==
    Mode = "LocalFallback"
        => /\ localStorage # NoItem
           /\ JsonParse(localStorage) = edges

\* This step is the end of a loadEdges whose GET failed: the fetch rejected or
\* the answer had a non-success status.
LoadFails ==
    /\ loading
    /\ ~loading'
    /\ \E o \in inflight : o.kind = "load" /\ ~ResOk(o.response)

\* The list held under "ens-graph-edges", when there is one.
StoredList == JsonParse(localStorage)

\* C20 as stated: when the initial load fails the store enters LocalFallback
\* and the view becomes the stored list if there is one, otherwise the four
\* demo edges.
C20_FallbackSeed ==
    [][LoadFails
          => /\ Mode' = "LocalFallback"
             /\ edges' = IF localStorage # NoItem THEN StoredList
                         ELSE INITIAL_EDGES]_vars

\* C20 (amended): when the initial load fails the store enters LocalFallback
\* and the view becomes the stored list if there is one; otherwise the view is
\* left as it is, which is the four demo edges when no addEdge or deleteEdge
\* was called before the load ended.
C20_FallbackKeepsView ==
    [][LoadFails
          => /\ Mode' = "LocalFallback"
             /\ edges' = IF localStorage # NoItem THEN StoredList ELSE edges
             /\ (localStorage = NoItem /\ opCount = 0)
                   => edges' = INITIAL_EDGES]_vars

\* A failed initial load has replaced the view by the stored list.
C20_Witness ==
    /\ done.kind = "load"
    /\ ~done.ok
    /\ Mode = "LocalFallback"
    /\ done.post # done.pre
    /\ done.post = edges
    /\ JsonParse(localStorage) = edges

\* The view shows an edge between the two names; the table holds such a row.
InView(view, source, target) ==
    \E i \in DOMAIN view : view[i].source = source /\ view[i].target = target

InTable(rows, source, target) ==
    \E i \in DOMAIN rows : rows[i].source = source /\ rows[i].target = target

\* This step ends the second of an add and a delete of the add's temporary
\* id, both accepted by the backend: the delete was called while the POST
\* was pending.  The other of the two is the operation `done` records.
AddThenDeleteEnds(o) ==
    /\ CompletesAccepted(o)
    /\ IsTemporary(o.id)
    /\ done.kind = "delete" /\ done.ok /\ done.id = o.id
    /\ done.mode # "LocalFallback"

DeleteThenAddEnds(o) ==
    /\ o \in inflight
    /\ o.kind = "delete"
    /\ o.stage = "answered"
    /\ ResOk(o.response)
    /\ \A o2 \in inflight' : o2.op # o.op
    /\ IsTemporary(o.id)
    /\ done.kind = "add" /\ done.ok /\ done.id = o.id
    /\ done.mode # "LocalFallback"

\* C27: when an edge is deleted by its temporary id while its POST is
\* pending and the backend accepts both requests, the edge is afterwards
\* neither in the view nor in the edges table.
C27_DeleteRacingAdd ==
    [][\A o \in inflight :
          /\ AddThenDeleteEnds(o)
                => /\ ~InView(edges', o.source, o.target)
                   /\ ~InTable(table', o.source, o.target)
          /\ DeleteThenAddEnds(o)
                => /\ ~InView(edges', o.edge.source, o.edge.target)
                   /\ ~InTable(table', o.edge.source, o.edge.target)]_vars

\* This step is the end of a loadEdges whose GET was answered with success,
\* in Persistent mode and with no add or delete in flight.
LoadSucceedsQuiet ==
    /\ loading
    /\ ~loading'
    /\ \E o \in inflight : o.kind = "load" /\ ResOk(o.response)
    /\ Mode' = "Persistent"
    /\ \A o \in inflight' : o.kind = "load"

\* The list the GET returned.
ReturnedList == (CHOOSE o \in inflight : o.kind = "load").response.body

\* C28 as stated: after a successful initial load with nothing in flight the
\* view equals the list the backend returned, the empty list included.
C28_ViewIsBackend ==
    [][LoadSucceedsQuiet => edges' = ReturnedList]_vars

\* C28 (amended): after a successful initial load with nothing in flight the
\* view equals the list the backend returned when that list is not empty;
\* when it is empty the view is left as it is, which is the four demo edges
\* when no addEdge or deleteEdge was called before the load ended.
C28_ViewIsBackendOrKept ==
    [][LoadSucceedsQuiet
          => /\ Len(ReturnedList) > 0 => edges' = ReturnedList
             /\ Len(ReturnedList) = 0 => edges' = edges
             /\ (Len(ReturnedList) = 0 /\ opCount = 0)
                   => edges' = INITIAL_EDGES]_vars

\* A successful initial load has replaced the demo edges by the stored row.
C28_Witness ==
    /\ done.kind = "load"
    /\ done.ok
    /\ Mode = "Persistent"
    /\ inflight = {}
    /\ opCount = 0
    /\ Len(table) = 1
    /\ edges = table

(***************************************************************************)
(* Claims about the validating revision of GraphPage.                      *)
(***************************************************************************)
\* C21: when the backend rejects or errors on an add or a delete whose
\* optimistic change is already in the view, the step that ends the call
\* leaves an error toast on the page (so no success toast stays as the
\* outcome of the failed add).
C21_FailureSurfaced ==
    [][\A o \in inflight :
          (CompletesFailed(o, "add") \/ CompletesFailed(o, "delete"))
             => /\ toast' # NoToast
                /\ toast'.type = "error"]_vars

\* The search confirms the name: it was answered, the subgraph answered, and
\* the name, ignoring case, is among the domains found.
Confirms(search, name) ==
    /\ search.delivered
    /\ search.subgraph.ok
    /\ \E i \in DOMAIN search.subgraph.domains :
          LowerName(search.subgraph.domains[i]) = LowerName(name)

\* The sides of the validated pair the search did not confirm.
Unconfirmed(v) ==
    {n \in {v.source, v.target} :
        \/ n = v.source /\ ~Confirms(v.sourceSearch, v.source)
        \/ n = v.target /\ ~Confirms(v.targetSearch, v.target)}

\* C26: the step that ends the validation of an addEdge changes the view or
\* sends a POST only if the search confirmed both names; otherwise (also when
\* the index is unreachable and the search answers an empty list) the view
\* and the backend stay as they are, no request is sent, and an error toast
\* names exactly the unconfirmed side or sides.
C26_OnlyConfirmedNames ==
    [][validated' # validated
          => LET v == validated'
             IN /\ (edges' # edges \/ reqCount' # reqCount)
                      => Unconfirmed(v) = {}
                /\ Unconfirmed(v) # {}
                      => /\ edges' = edges
                         /\ table' = table
                         /\ reqCount' = reqCount
                         /\ \A o \in inflight' : o.op # v.op
                         /\ toast' # NoToast
                         /\ toast'.type = "error"
                         /\ \A n \in {v.source, v.target} :
                               n \in SeqToSet(toast'.message)
                                  <=> n \in Unconfirmed(v)]_vars

\* An addEdge was refused while the index was unreachable: the search
\* answered an empty list for both names and the error toast is shown.
C26_Witness ==
    /\ validated # NoValidation
    /\ validated.sourceSearch.delivered
    /\ ~validated.sourceSearch.subgraph.ok
    /\ validated.targetSearch.delivered
    /\ ~validated.targetSearch.subgraph.ok
    /\ toast = ToastBoth(validated.source, validated.target)
    /\ \A i \in DOMAIN edges : edges[i].source # validated.source

(***************************************************************************)
(* Claims about the ActivityStore under concurrency, bounded refresh and   *)
(* aggregation.                                                            *)
(***************************************************************************)
\* The row handler h is about to write: all of it computed by one refresh.
RowOf(h) ==
    [address |-> call[h].normalizedAddress,
     activitiesJson |-> ActivitiesToJson(call[h].activities),
     maxCount |-> call[h].maxCount,
     updatedAt |-> call[h].updatedAt]

\* C22: whatever the interleaving of calls, the cache table holds at most one
\* row per address, and every row that appears in it is, in all its fields,
\* the row of one refresh (series, maxCount and updatedAt of the same call).
C22_LastWriterWins ==
    [][/\ \A k \in CacheKeys :
             Cardinality({r \in cacheTable' : r.address = k}) <= 1
       /\ \A r \in cacheTable' \ cacheTable :
             /\ \E h \in Handlers : LeavesCacheWrite(h) /\ r = RowOf(h)
             /\ r.maxCount = MaxCountOf(ActivitiesFromJson(r.activitiesJson))]_vars

\* Two overlapping calls for one address have both refreshed and written.
C22_Witness ==
    /\ \A h \in Handlers : call[h].pc = "done" /\ call[h].wrote
    /\ \A h1, h2 \in Handlers :
          call[h1].normalizedAddress = call[h2].normalizedAddress
    /\ Cardinality(cacheTable) = 1

\* Handler h leaves the await of the two fetches after the timeout fired.
AbortedByTimeout(h) ==
    /\ call[h].pc = "awaitFetch"
    /\ TimedOut(call[h])
    /\ call'[h].pc # "awaitFetch"

LacksEdge == ~Truthy(done.body.source) \/ ~Truthy(done.body.target)
LacksId == done.body.id = MissingId

\* C24: a POST whose source or target is missing or empty answers 400 and
\* inserts nothing; a DELETE whose id is missing answers 400 and deletes
\* nothing; a persistence failure answers 500 and leaves the table as it
\* was; every other DELETE answers success, whether or not the row existed.
C24_RouteValidation ==
    done.kind = "route"
        => /\ (done.method = "POST" /\ LacksEdge)
                 => done.status = 400 /\ table = done.pre
           /\ (done.method = "DELETE" /\ LacksId)
                 => done.status = 400 /\ table = done.pre
           /\ (done.reachedDb /\ ~done.dbOk)
                 => done.status = 500 /\ table = done.pre
           /\ (done.method = "DELETE" /\ ~LacksId /\ done.dbOk)
                 => done.status = 200

\* The number of records of the list whose timestamp lies on the UTC day.
RecordsOn(txs, day) ==
    Cardinality({i \in DOMAIN txs :
                    /\ txs[i].timeStamp # NotANumber
                    /\ txs[i].timeStamp \div SecondsPerDay = day})

\* The largest count of the series, or 1 when all counts are zero.
LargestCount(activities) ==
    LET counts == {activities[k].count : k \in DOMAIN activities}
        top == CHOOSE m \in counts : \A n \in counts : n <= m
    IN IF top = 0 THEN 1 ELSE top

\* C25: a fresh response carries, for each of the 180 consecutive days that
\* end on the day of the refresh, the number of records of the merged lists
\* whose timestamp lies on that UTC day (records of other days are in no
\* entry); its maxCount is the largest count, or 1; and the row the call
\* wrote holds the same series and maxCount.
C25_Histogram ==
    \A h \in Handlers :
       (call[h].pc = "done" /\ call[h].response.kind = "fresh")
       => LET r == call[h].response
              row == SelectRow(cacheTable, call[h].normalizedAddress)
          IN /\ WellFormedSeries(r.activities, DateStr(call[h].startedAt),
                                 call[h].respondedOn)
             /\ \A k \in DOMAIN r.activities :
                   r.activities[k].count
                      = RecordsOn(call[h].allTransactions, r.activities[k].date)
             /\ r.maxCount = LargestCount(r.activities)
             /\ call[h].wrote
                   => /\ row # NoRow
                      /\ ActivitiesFromJson(row.activitiesJson) = r.activities
                      /\ row.maxCount = r.maxCount

\* A refresh on the last second of 31 August has counted the record of the
\* first second of the window's first day, and has written the series.
C25_Witness ==
    /\ call[FirstHandler].pc = "done"
    /\ call[FirstHandler].response.kind = "fresh"
    /\ call[FirstHandler].wrote
    /\ now = DaysFromCivil(2026, 8, 31) * SecondsPerDay + (SecondsPerDay - 1)
    /\ call[FirstHandler].response.activities[1].count = 1
    /\ call[FirstHandler].response.activities[daysToShow].count = 2
    /\ Len(call[FirstHandler].allTransactions) = 7

(***************************************************************************)
(* Claims about the initial load of the EdgeStore.                         *)
(***************************************************************************)
\* This step is the end of the initial loadEdges.
LoadEnds == loading /\ ~loading'

\* C29: an edge added while the initial load was in flight (it is in the view
\* under its temporary id when the load ends) is still in the view after the
\* load has ended, whether the load succeeded or failed.
C29_LoadKeepsOptimistic ==
    [][LoadEnds
          => \A i \in DOMAIN edges :
                IsTemporary(edges[i].id)
                   => InView(edges', edges[i].source, edges[i].target)]_vars

\* This step takes the initial load out of flight: loadEdges has run to its
\* end or an exception has left it.
LoadLeaves ==
    /\ \E o \in inflight : o.kind = "load"
    /\ \A o \in inflight' : o.kind # "load"

\* C30: for every answer of the backend and every stored item, loadEdges
\* ends with the loading flag cleared, the mode Persistent or LocalFallback,
\* and no exception leaving it.
C30_LoadCompletes ==
    [][LoadLeaves
          => /\ ~loading'
             /\ Mode' \in {"Persistent", "LocalFallback"}
             /\ done'.kind # "uncaught"]_vars

====
